---- MODULE Spec2Model ----
(***************************************************************************)
(* CardMaker: the PNG character-card codec (lib/pngCard), its checksum     *)
(* (lib/crc32), extractFirstJsonObject (lib/safeJson) and                  *)
(* normalizeImportedCard (the card types).  Buffers are sequences of bytes *)
(* 0..255, JavaScript strings are sequences of UTF-16 code units, and a    *)
(* number in the unsigned 32-bit range is a pair of 16-bit limbs [h, l]    *)
(* standing for h * 65536 + l                                              *)
(* (TLC's integers are 32-bit signed).  A bitwise operator of JavaScript   *)
(* yields a signed 32-bit number: its h is in -32768..32767.               *)
(***************************************************************************)
EXTENDS Integers, Sequences, FiniteSets, TLC

VARIABLES
    file,     \* the file the session started from: its prefix, chunks and tail
    png,      \* the loaded file's bytes (png.bytes in page.tsx)
    pc,       \* "loaded" -> "read" -> "written" -> "verified"
    ext,      \* outcome of extractCardFromPng(png)
    text,     \* the card text handed to embedCardIntoPng
    opts,     \* the options handed to embedCardIntoPng
    out,      \* outcome of embedCardIntoPng(png, text, opts)
    rt,       \* outcome of extractCardFromPng on the buffer embed returned
    base,     \* once an export was loaded back: the bytes it was made from
    wrote,    \* ... and the text and options it was made with
    crcTable,   \* the module's CRC32_TABLE (a Uint32Array)
    signature,  \* the module's PNG_SIGNATURE (a Uint8Array)
    calls     \* the calls in progress, each with its locals

vars == <<file, png, pc, ext, text, opts, out, rt, base, wrote, crcTable, signature, calls>>

(***************************************************************************)
(* Bytes, bits and strings                                                 *)
(***************************************************************************)

STR_chara == <<99, 104, 97, 114, 97>>
STR_ccv3 == <<99, 99, 118, 51>>
STR_tEXt == <<116, 69, 88, 116>>
STR_IEND == <<73, 69, 78, 68>>

\* F applied to x, with x bound to its value first
Strict(F(_), x) == CHOOSE r \in {F(v) : v \in {x}} : TRUE

RECURSIVE BitXorFrom(_, _)
BitXorFrom(a, b) ==
    IF a = 0 THEN b
    ELSE IF b = 0 THEN a
    ELSE (((a % 2) + (b % 2)) % 2) + 2 * BitXorFrom(a \div 2, b \div 2)

\* a ^ b for a, b >= 0, bit by bit; the operands are bound to their values
\* first
BitXor(a, b) == Strict(LAMBDA u : Strict(LAMBDA v : BitXorFrom(u, v), b), a)

\* a number of the unsigned 32-bit range, as two 16-bit limbs
U32(n) == [h |-> n \div 65536, l |-> n % 65536]

\* ToUint32 and ToInt32: the number modulo 2^32, read unsigned and signed
ToUint32(x) == [h |-> x.h % 65536, l |-> x.l]
ToInt32(x) ==
    [h |-> IF x.h % 65536 >= 32768 THEN (x.h % 65536) - 65536 ELSE x.h % 65536, l |-> x.l]

\* x ^ y: the operands' 32 bits combined, the result read signed
Xor32(x, y) ==
    Strict(LAMBDA u : Strict(LAMBDA v :
        Strict(ToInt32, [h |-> BitXor(ToUint32(u).h, ToUint32(v).h), l |-> BitXor(u.l, v.l)]),
        y), x)

\* x >>> n for n in 0..15: the operand read unsigned, zeros shifted in
Shr32(x, n) ==
    Strict(LAMBDA u : [h |-> u.h \div (2 ^ n),
                       l |-> ((u.h % (2 ^ n)) * (2 ^ (16 - n))) + (u.l \div (2 ^ n))],
           ToUint32(x))

(***************************************************************************)
(* lib/crc32.ts                                                            *)
(***************************************************************************)

POLY == [h |-> 60856, l |-> 33568]       \* 0xedb88320
ALL_ONES == [h |-> 65535, l |-> 65535]   \* 0xffffffff

\* the round with the polynomial written unreflected, 0x04c11db7
TableBitUnreflected(crc) ==
    IF crc.l % 2 = 1 THEN Xor32([h |-> 1217, l |-> 7607], Shr32(crc, 1)) ELSE Shr32(crc, 1)

\* one round of the inner loop: crc & 1 ? (0xedb88320 ^ (crc >>> 1)) : (crc >>> 1)
TableBit(crc) == IF crc.l % 2 = 1 THEN Xor32(POLY, Shr32(crc, 1)) ELSE Shr32(crc, 1)

\* the inner loop from round j on; each round's value is bound before the
\* next round starts
RECURSIVE TableBits(_, _)
TableBits(crc, j) ==
    IF j = 8 THEN crc
    ELSE Strict(LAMBDA v : TableBits(v, j + 1), TableBit(crc))

\* table[i] = crc >>> 0, stored in a Uint32Array
makeCrc32Table == [i \in 0..255 |-> Shr32(TableBits(U32(i), 0), 0)]

CRC32_TABLE == makeCrc32Table

IsUint32(x) == x.h \in 0..65535 /\ x.l \in 0..65535
IsInt32(x) == x.h \in -32768..32767 /\ x.l \in 0..65535

\* one round of the loop over a table: table[(crc ^ b) & 0xff] ^ (crc >>> 8)
Crc32Lookup(table, crc, b) == Xor32(table[BitXor(crc.l % 256, b)], Shr32(crc, 8))

\* one round of the loop: crc = CRC32_TABLE[(crc ^ b) & 0xff] ^ (crc >>> 8)
Crc32Step(crc, b) == Crc32Lookup(CRC32_TABLE, crc, b)

\* the loop from the k-th byte on; each round's value is bound before the
\* next round starts
RECURSIVE Crc32Loop(_, _, _)
Crc32Loop(bytes, k, crc) ==
    IF k > Len(bytes) THEN crc
    ELSE Strict(LAMBDA v : Crc32Loop(bytes, k + 1, v), Crc32Step(crc, bytes[k]))

\* the result left as the last xor gives it: signed
Crc32ResultSigned(crc) == Xor32(crc, ALL_ONES)

\* return (crc ^ 0xffffffff) >>> 0
Crc32Result(crc) == Shr32(Xor32(crc, ALL_ONES), 0)

crc32(bytes) == Strict(LAMBDA b : Crc32Result(Crc32Loop(b, 1, ALL_ONES)), bytes)

(***************************************************************************)
(* Platform text codecs used by lib/pngCard: TextEncoder, TextDecoder,     *)
(* btoa and atob, as the WHATWG Encoding and HTML standards define them.   *)
(***************************************************************************)

REPLACEMENT == 65533   \* U+FFFD
BOM == 65279           \* U+FEFF

IsHighSurrogate(u) == u >= 55296 /\ u <= 56319
IsLowSurrogate(u) == u >= 56320 /\ u <= 57343

\* a string's code units as scalar values: a surrogate pair is one code
\* point, a lone surrogate becomes U+FFFD (the USVString conversion)
RECURSIVE ToScalarValues(_, _)
ToScalarValues(s, i) ==
    IF i > Len(s) THEN <<>>
    ELSE IF IsHighSurrogate(s[i]) /\ i < Len(s) /\ IsLowSurrogate(s[i + 1])
         THEN <<65536 + ((s[i] - 55296) * 1024) + (s[i + 1] - 56320)>>
              \o ToScalarValues(s, i + 2)
    ELSE IF IsHighSurrogate(s[i]) \/ IsLowSurrogate(s[i])
         THEN <<REPLACEMENT>> \o ToScalarValues(s, i + 1)
    ELSE <<s[i]>> \o ToScalarValues(s, i + 1)

Utf8Bytes(cp) ==
    IF cp < 128 THEN <<cp>>
    ELSE IF cp < 2048 THEN <<192 + (cp \div 64), 128 + (cp % 64)>>
    ELSE IF cp < 65536
         THEN <<224 + (cp \div 4096), 128 + ((cp \div 64) % 64), 128 + (cp % 64)>>
    ELSE <<240 + (cp \div 262144), 128 + ((cp \div 4096) % 64),
           128 + ((cp \div 64) % 64), 128 + (cp % 64)>>

RECURSIVE Utf8Encode(_, _)
Utf8Encode(cps, i) ==
    IF i > Len(cps) THEN <<>> ELSE Utf8Bytes(cps[i]) \o Utf8Encode(cps, i + 1)

\* new TextEncoder().encode(s)
TextEncoderEncode(s) ==
    Strict(LAMBDA u : Strict(LAMBDA cps : Utf8Encode(cps, 1), ToScalarValues(u, 1)), s)

\* code points as UTF-16 code units
RECURSIVE ToCodeUnits(_, _)
ToCodeUnits(cps, i) ==
    IF i > Len(cps) THEN <<>>
    ELSE IF cps[i] >= 65536
         THEN <<55296 + ((cps[i] - 65536) \div 1024),
                56320 + ((cps[i] - 65536) % 1024)>> \o ToCodeUnits(cps, i + 1)
    ELSE <<cps[i]>> \o ToCodeUnits(cps, i + 1)

\* The UTF-8 decoder: `need` continuation bytes are still expected for the
\* code point `cp`, the next one within lo..hi.  A malformed sequence emits
\* U+FFFD and sets `bad`.
RECURSIVE Utf8Decoder(_, _, _, _, _, _, _, _)
Utf8Decoder(bytes, i, cp, need, lo, hi, cps, bad) ==
    IF i > Len(bytes)
    THEN IF need # 0 THEN [cps |-> Append(cps, REPLACEMENT), bad |-> TRUE]
         ELSE [cps |-> cps, bad |-> bad]
    ELSE LET b == bytes[i] IN
      IF need = 0 THEN
        IF b <= 127 THEN Utf8Decoder(bytes, i + 1, 0, 0, 128, 191, Append(cps, b), bad)
        ELSE IF b >= 194 /\ b <= 223
             THEN Utf8Decoder(bytes, i + 1, b % 32, 1, 128, 191, cps, bad)
        ELSE IF b >= 224 /\ b <= 239
             THEN Utf8Decoder(bytes, i + 1, b % 16, 2,
                              IF b = 224 THEN 160 ELSE 128,
                              IF b = 237 THEN 159 ELSE 191, cps, bad)
        ELSE IF b >= 240 /\ b <= 244
             THEN Utf8Decoder(bytes, i + 1, b % 8, 3,
                              IF b = 240 THEN 144 ELSE 128,
                              IF b = 244 THEN 143 ELSE 191, cps, bad)
        ELSE Utf8Decoder(bytes, i + 1, 0, 0, 128, 191, Append(cps, REPLACEMENT), TRUE)
      ELSE IF b < lo \/ b > hi
           THEN Utf8Decoder(bytes, i, 0, 0, 128, 191, Append(cps, REPLACEMENT), TRUE)
      ELSE IF need = 1
           THEN Utf8Decoder(bytes, i + 1, 0, 0, 128, 191,
                            Append(cps, (cp * 64) + (b % 64)), bad)
      ELSE Utf8Decoder(bytes, i + 1, (cp * 64) + (b % 64), need - 1, 128, 191, cps, bad)

\* new TextDecoder("utf-8", { fatal }).decode(bytes): ignoreBOM is left at
\* its default, so one leading U+FEFF is dropped from the result.
TextDecoderUtf8(bytes, fatal) ==
    Strict(LAMBDA d :
             LET cps == IF Len(d.cps) > 0 /\ d.cps[1] = BOM THEN Tail(d.cps) ELSE d.cps
             IN  IF fatal /\ d.bad THEN [thrown |-> TRUE, value |-> <<>>]
                 ELSE [thrown |-> FALSE, value |-> Strict(LAMBDA c : ToCodeUnits(c, 1), cps)],
           Strict(LAMBDA b : Utf8Decoder(b, 1, 0, 0, 128, 191, <<>>, FALSE), bytes))

\* windows-1252, the encoding the label "ascii" names
WIN1252_HIGH ==
    <<8364, 129, 8218, 402, 8222, 8230, 8224, 8225, 710, 8240, 352, 8249, 338,
      141, 381, 143, 144, 8216, 8217, 8220, 8221, 8226, 8211, 8212, 732, 8482,
      353, 8250, 339, 157, 382, 376>>

\* new TextDecoder("ascii").decode(bytes)
TextDecoderAscii(bytes) ==
    Strict(LAMBDA b : [k \in 1..Len(b) |->
                          IF b[k] >= 128 /\ b[k] <= 159 THEN WIN1252_HIGH[b[k] - 127]
                          ELSE b[k]],
           bytes)

\* the base64 alphabet: A-Z a-z 0-9 + /
B64Char(v) ==
    IF v < 26 THEN 65 + v
    ELSE IF v < 52 THEN 97 + (v - 26)
    ELSE IF v < 62 THEN 48 + (v - 52)
    ELSE IF v = 62 THEN 43 ELSE 47

B64Value(c) ==
    IF c >= 65 /\ c <= 90 THEN c - 65
    ELSE IF c >= 97 /\ c <= 122 THEN (c - 97) + 26
    ELSE IF c >= 48 /\ c <= 57 THEN (c - 48) + 52
    ELSE IF c = 43 THEN 62
    ELSE IF c = 47 THEN 63 ELSE -1

PAD == 61   \* "="

\* btoa(binary): binary holds code units 0..255
RECURSIVE btoa(_)
btoa(binary) ==
    LET n == Len(binary) IN
    IF n = 0 THEN <<>>
    ELSE IF n = 1
         THEN <<B64Char(binary[1] \div 4), B64Char((binary[1] % 4) * 16), PAD, PAD>>
    ELSE IF n = 2
         THEN <<B64Char(binary[1] \div 4),
                B64Char(((binary[1] % 4) * 16) + (binary[2] \div 16)),
                B64Char((binary[2] % 16) * 4), PAD>>
    ELSE <<B64Char(binary[1] \div 4),
           B64Char(((binary[1] % 4) * 16) + (binary[2] \div 16)),
           B64Char(((binary[2] % 16) * 4) + (binary[3] \div 64)),
           B64Char(binary[3] % 64)>> \o btoa(SubSeq(binary, 4, n))

IsAsciiWhitespace(c) == c \in {9, 10, 12, 13, 32}

RECURSIVE B64Groups(_)
B64Groups(v) ==
    LET n == Len(v) IN
    IF n = 0 THEN <<>>
    ELSE IF n = 2 THEN <<(v[1] * 4) + (v[2] \div 16)>>
    ELSE IF n = 3
         THEN <<(v[1] * 4) + (v[2] \div 16), ((v[2] % 16) * 16) + (v[3] \div 4)>>
    ELSE <<(v[1] * 4) + (v[2] \div 16), ((v[2] % 16) * 16) + (v[3] \div 4),
           ((v[3] % 4) * 64) + v[4]>> \o B64Groups(SubSeq(v, 5, n))

\* the data less its ASCII whitespace and, when its length is a multiple of
\* 4, less one or two trailing "="
AtobStripped(data) ==
    Strict(LAMBDA a : IF Len(a) % 4 = 0 /\ Len(a) > 0 /\ a[Len(a)] = PAD
                      THEN IF a[Len(a) - 1] = PAD THEN SubSeq(a, 1, Len(a) - 2)
                           ELSE SubSeq(a, 1, Len(a) - 1)
                      ELSE a,
           SelectSeq(data, LAMBDA c : ~IsAsciiWhitespace(c)))

\* atob(data): the forgiving-base64 decode
atob(data) ==
    Strict(LAMBDA b : IF Len(b) % 4 = 1 \/ \E k \in 1..Len(b) : B64Value(b[k]) < 0
                      THEN [thrown |-> TRUE, value |-> <<>>]
                      ELSE [thrown |-> FALSE,
                            value |-> Strict(B64Groups, [k \in 1..Len(b) |-> B64Value(b[k])])],
           AtobStripped(data))

(***************************************************************************)
(* lib/pngCard                                                             *)
(***************************************************************************)

PNG_SIGNATURE == <<137, 80, 78, 71, 13, 10, 26, 10>>

Undefined == -1

\* buf[i] with JavaScript's 0-based index: undefined past the end
At(buf, i) == IF i >= 0 /\ i < Len(buf) THEN buf[i + 1] ELSE Undefined

\* buf.slice(from, to)
Slice(buf, from, to) == SubSeq(buf, from + 1, IF to > Len(buf) THEN Len(buf) ELSE to)

\* the four bytes taken lowest first
readUint32LE(buf, offset) ==
    LET b3 == At(buf, offset + 3) IN
    ((IF b3 >= 128 THEN b3 - 256 ELSE b3) * 16777216)
      + (At(buf, offset + 2) * 65536) + (At(buf, offset + 1) * 256) + At(buf, offset)

\* the signed 32-bit result of the shifts and ors
readUint32BE(buf, offset) ==
    LET b0 == At(buf, offset) IN
    ((IF b0 >= 128 THEN b0 - 256 ELSE b0) * 16777216)
      + (At(buf, offset + 1) * 65536) + (At(buf, offset + 2) * 256) + At(buf, offset + 3)

\* the length left signed
UnsignedOmitted(x) == [h |-> x \div 65536, l |-> x % 65536]

\* x >>> 0 for a signed 32-bit x
Unsigned(x) ==
    IF x >= 0 THEN U32(x)
    ELSE LET y == (x + 2147483647) + 1
         IN  [h |-> 32768 + (y \div 65536), l |-> y % 65536]

\* n + k and n > m for a number n held as limbs and small integers k, m
NumAdd(n, k) == [h |-> n.h + ((n.l + k) \div 65536), l |-> (n.l + k) % 65536]
NumGt(n, m) == n.h > m \div 65536 \/ (n.h = m \div 65536 /\ n.l > m % 65536)
NumToInt(n) == (n.h * 65536) + n.l

writeUint32BE(value) ==
    Strict(LAMBDA v : <<(v.h \div 256) % 256, v.h % 256, (v.l \div 256) % 256, v.l % 256>>,
           value)

RECURSIVE ConcatFrom(_)
ConcatFrom(parts) ==
    IF Len(parts) = 0 THEN <<>> ELSE Head(parts) \o ConcatFrom(Tail(parts))

concatBytes(parts) == Strict(ConcatFrom, parts)

encodeAscii(s) == TextEncoderEncode(s)

chunkSize == 8192

RECURSIVE BinaryStringFrom(_, _)
BinaryStringFrom(bytes, i) ==
    IF i >= Len(bytes) THEN <<>>
    ELSE Slice(bytes, i, i + chunkSize) \o BinaryStringFrom(bytes, i + chunkSize)

bytesToBinaryString(bytes) == Strict(LAMBDA b : BinaryStringFrom(b, 0), bytes)

base64EncodeUtf8(s) ==
    Strict(LAMBDA binary : Strict(btoa, binary), bytesToBinaryString(TextEncoderEncode(s)))

base64DecodeUtf8(b64) ==
    Strict(LAMBDA binary : IF binary.thrown THEN [thrown |-> TRUE, value |-> <<>>]
                           ELSE TextDecoderUtf8(binary.value, TRUE),
           atob(b64))

\* chunkData.indexOf(0)
RECURSIVE IndexOfZero(_, _)
IndexOfZero(data, i) ==
    IF i >= Len(data) THEN -1
    ELSE IF At(data, i) = 0 THEN i ELSE IndexOfZero(data, i + 1)

NoParse == [found |-> FALSE, keyword |-> <<>>, textBytes |-> <<>>]

parseTextChunkKeyword(chunkData) ==
    Strict(LAMBDA data :
             Strict(LAMBDA nullIndex :
                      IF nullIndex <= 0 THEN NoParse
                      ELSE [found |-> TRUE,
                            keyword |-> TextDecoderUtf8(Slice(data, 0, nullIndex), FALSE).value,
                            textBytes |-> Slice(data, nullIndex + 1, Len(data))],
                    IndexOfZero(data, 0)),
           chunkData)

\* the comparison stopping one byte early
HasSignatureOffByOne(pngBytes) == \A i \in 0..6 : At(pngBytes, i) = PNG_SIGNATURE[i + 1]

\* the comparison taking a missing byte for a match
HasSignatureIfPresent(pngBytes) ==
    \A i \in 0..7 : At(pngBytes, i) \in {Undefined, PNG_SIGNATURE[i + 1]}

HasSignature(pngBytes) == \A i \in 0..7 : At(pngBytes, i) = PNG_SIGNATURE[i + 1]

Null == [kind |-> "null", keyword |-> <<>>, jsonText |-> <<>>]
DecodeThrown == [kind |-> "throw", keyword |-> <<>>, jsonText |-> <<>>]
Card(keyword, jsonText) == [kind |-> "card", keyword |-> keyword, jsonText |-> jsonText]

\* a failed decode taken for "no card"
ExtractMatchedOrNull(keyword, textBytes) ==
    LET jsonText == base64DecodeUtf8(TextDecoderAscii(textBytes)) IN
    IF jsonText.thrown THEN Null ELSE Card(keyword, jsonText.value)

\* what a matched carrier chunk makes extractCardFromPng do
ExtractMatched(keyword, textBytes) ==
    LET jsonText == base64DecodeUtf8(TextDecoderAscii(textBytes)) IN
    IF jsonText.thrown THEN DecodeThrown ELSE Card(keyword, jsonText.value)

\* the test knowing one keyword only
IsCardKeywordCharaOnly(keyword) == keyword = STR_chara

\* keyword === "chara" || keyword === "ccv3"
IsCardKeyword(keyword) == keyword = STR_chara \/ keyword = STR_ccv3

\* the walk going on past IEND
ExtractEndsNever(type) == FALSE

\* if (type === "IEND") break
ExtractEndsAt(type) == type = STR_IEND

\* the overrun raised as an error
ExtractOverrunThrows == DecodeThrown

\* if (next > pngBytes.length) break: the walk ends, null is returned
ExtractOverrun == Null

\* a reader that takes a chunk only when its CRC field matches its bytes
CrcAcceptedIfFresh(typeAndData, crcBytes) == crcBytes = writeUint32BE(crc32(typeAndData))

\* the four CRC bytes are stepped over (next = dataEnd + 4), never compared
CrcAccepted(typeAndData, crcBytes) == TRUE

RECURSIVE ExtractLoop(_, _)
ExtractLoop(pngBytes, offset) ==
    IF offset + 12 > Len(pngBytes) THEN Null
    ELSE
      LET len == Unsigned(readUint32BE(pngBytes, offset))
          type == TextDecoderAscii(Slice(pngBytes, offset + 4, offset + 8))
          dataStart == offset + 8
          next == NumAdd(len, dataStart + 4)
      IN
      IF NumGt(next, Len(pngBytes)) THEN ExtractOverrun
      ELSE
        LET dataEnd == dataStart + NumToInt(len)
            parsed == IF type = STR_tEXt
                      THEN parseTextChunkKeyword(Slice(pngBytes, dataStart, dataEnd))
                      ELSE NoParse
        IN
        IF ~CrcAccepted(Slice(pngBytes, offset + 4, dataEnd), Slice(pngBytes, dataEnd, dataEnd + 4))
        THEN Null
        ELSE IF parsed.found /\ IsCardKeyword(parsed.keyword)
        THEN ExtractMatched(parsed.keyword, parsed.textBytes)
        ELSE IF ExtractEndsAt(type) THEN Null
        ELSE ExtractLoop(pngBytes, dataEnd + 4)

\* a buffer without the signature answered with an error, as embed does
extractCardFromPngOrThrow(pngBytes) ==
    IF Len(pngBytes) < 8 THEN DecodeThrown
    ELSE IF ~HasSignature(pngBytes) THEN DecodeThrown
    ELSE ExtractLoop(pngBytes, 8)

extractCardFromPng(pngBytes) ==
    IF Len(pngBytes) < 8 THEN Null
    ELSE IF ~HasSignature(pngBytes) THEN Null
    ELSE ExtractLoop(pngBytes, 8)

\* the new chunk with the checksum taken over the payload alone
buildTextChunkCrcOfData(keyword, base64Payload) ==
    Strict(LAMBDA data :
             LET typeBytes == encodeAscii(STR_tEXt)
                 lengthBytes == writeUint32BE(U32(Len(data)))
                 crcBytes == writeUint32BE(crc32(data))
             IN  concatBytes(<<lengthBytes, typeBytes, data, crcBytes>>),
           concatBytes(<<encodeAscii(keyword), <<0>>, encodeAscii(base64Payload)>>))

buildTextChunk(keyword, base64Payload) ==
    Strict(LAMBDA data :
             LET typeBytes == encodeAscii(STR_tEXt)
                 lengthBytes == writeUint32BE(U32(Len(data)))
                 crcBytes == writeUint32BE(crc32(concatBytes(<<typeBytes, data>>)))
             IN  concatBytes(<<lengthBytes, typeBytes, data, crcBytes>>),
           concatBytes(<<encodeAscii(keyword), <<0>>, encodeAscii(base64Payload)>>))

Thrown(error) == [thrown |-> TRUE, error |-> error, bytes |-> <<>>]
Returned(bytes) == [thrown |-> FALSE, error |-> "", bytes |-> bytes]

\* the copy with the checksum taken over the payload alone
CopiedChunkCrcOfData(typeBytes, chunkData) ==
    LET lengthBytes == writeUint32BE(U32(Len(chunkData)))
        crcBytes == writeUint32BE(crc32(chunkData))
    IN  concatBytes(<<lengthBytes, typeBytes, chunkData, crcBytes>>)

\* the chunk embedCardIntoPng writes for a chunk it copies
CopiedChunk(typeBytes, chunkData) ==
    LET lengthBytes == writeUint32BE(U32(Len(chunkData)))
        crcBytes == writeUint32BE(crc32(concatBytes(<<typeBytes, chunkData>>)))
    IN  concatBytes(<<lengthBytes, typeBytes, chunkData, crcBytes>>)

\* the drop that forgets the ccv3 carriers
SkipChunkCharaOnly(type, chunkData) ==
    LET parsed == IF type = STR_tEXt THEN parseTextChunkKeyword(chunkData) ELSE NoParse
    IN  parsed.found /\ parsed.keyword = STR_chara

\* no chunk of the source is left out
SkipChunkNever(type, chunkData) == FALSE

\* is this chunk one embedCardIntoPng drops
SkipChunk(type, chunkData) ==
    LET parsed == IF type = STR_tEXt THEN parseTextChunkKeyword(chunkData) ELSE NoParse
    IN  parsed.found /\ IsCardKeyword(parsed.keyword)

\* what the loop does once it has run off the chunks without meeting IEND
EmbedLoopEnd(outParts) == Returned(concatBytes(outParts))

\* the overrun answered with what was copied so far
EmbedOverrunReturns(outParts) == Returned(concatBytes(outParts))

\* if (chunkEnd > pngBytes.length) throw new Error(...)
EmbedOverrun(outParts) == Thrown("ChunkCorrupt")

RECURSIVE EmbedLoop(_, _, _, _)
EmbedLoop(pngBytes, toInsert, offset, outParts) ==
    IF offset + 12 > Len(pngBytes) THEN EmbedLoopEnd(outParts)
    ELSE
      LET len == Unsigned(readUint32BE(pngBytes, offset))
          typeBytes == Slice(pngBytes, offset + 4, offset + 8)
          type == TextDecoderAscii(typeBytes)
          dataStart == offset + 8
          chunkEnd == NumAdd(len, dataStart + 4)
      IN
      IF NumGt(chunkEnd, Len(pngBytes)) THEN EmbedOverrun(outParts)
      ELSE
        LET dataEnd == dataStart + NumToInt(len)
            chunkData == Slice(pngBytes, dataStart, dataEnd)
            skip == SkipChunk(type, chunkData)
            withInsert == IF type = STR_IEND THEN outParts \o toInsert ELSE outParts
            withChunk == IF ~skip THEN Append(withInsert, CopiedChunk(typeBytes, chunkData))
                         ELSE withInsert
        IN
        IF type = STR_IEND THEN Returned(concatBytes(withChunk))
        ELSE EmbedLoop(pngBytes, toInsert, dataEnd + 4, withChunk)

\* the flag read without its default: opts?.writeX
FlagOnIfGiven(flag) == flag = "true"

\* opts?.writeX ?? true, for a flag "true", "false" or "undefined" (the
\* field, or the whole options object, is omitted)
FlagOn(flag) == IF flag = "undefined" THEN TRUE ELSE flag = "true"

InsertionSet(b64, writeChara, writeCcv3) ==
    (IF writeChara THEN <<buildTextChunk(STR_chara, b64)>> ELSE <<>>)
      \o (IF writeCcv3 THEN <<buildTextChunk(STR_ccv3, b64)>> ELSE <<>>)

embedCardIntoPng(pngBytes, cardJsonText, o) ==
    LET writeCcv3 == FlagOn(o.writeCcv3)
        writeChara == FlagOn(o.writeChara)
    IN
    IF ~HasSignature(pngBytes) THEN Thrown("NotPng")
    ELSE EmbedLoop(pngBytes,
                   InsertionSet(base64EncodeUtf8(cardJsonText), writeChara, writeCcv3),
                   8, <<PNG_SIGNATURE>>)

(***************************************************************************)
(* The files a session may start from.  A file is a prefix (the signature  *)
(* or a damaged one), whole chunks and a tail of left-over bytes.          *)
(***************************************************************************)

MaxChunks == 2

Chunk(type, data, crcOk) == [type |-> type, data |-> data, crcOk |-> crcOk]

\* a chunk as the file stores it; a chunk with crcOk = FALSE stores the
\* checksum with its lowest bit flipped
ChunkBytes(c) ==
    LET crc == crc32(c.type \o c.data)
        stored == IF c.crcOk THEN crc
                  ELSE [h |-> crc.h, l |-> IF crc.l % 2 = 0 THEN crc.l + 1 ELSE crc.l - 1]
    IN  writeUint32BE(U32(Len(c.data))) \o c.type \o c.data \o writeUint32BE(stored)

RECURSIVE ChunksBytes(_)
ChunksBytes(cs) == IF Len(cs) = 0 THEN <<>> ELSE ChunkBytes(Head(cs)) \o ChunksBytes(Tail(cs))

FileBytes(f) == f.prefix \o ChunksBytes(f.chunks) \o f.tail

STR_IHDR == <<73, 72, 68, 82>>
UTF8_BOM == <<239, 187, 191>>

\* a chunk that is no text chunk, stored with a wrong checksum
cIHDR == Chunk(STR_IHDR, <<1>>, FALSE)
\* a text chunk keyed "Title", which is no carrier
cTitle == Chunk(STR_tEXt, <<84, 105, 116, 108, 101>> \o <<0>> \o <<81, 81, 61, 61>>, TRUE)
\* carriers holding "A" and "B"
cChara == Chunk(STR_tEXt, STR_chara \o <<0>> \o <<81, 81, 61, 61>>, TRUE)
cCcv3 == Chunk(STR_tEXt, STR_ccv3 \o <<0>> \o <<81, 103, 61, 61>>, FALSE)
\* a carrier whose text "!" is no base64
cBadB64 == Chunk(STR_tEXt, STR_chara \o <<0>> \o <<33>>, TRUE)
\* a carrier whose text "/w==" is the byte FF, which is no UTF-8
cBadUtf8 == Chunk(STR_tEXt, STR_ccv3 \o <<0>> \o <<47, 119, 61, 61>>, TRUE)
\* a carrier holding "C" whose keyword bytes begin with a byte order mark
cBomKey == Chunk(STR_tEXt, UTF8_BOM \o STR_chara \o <<0>> \o <<81, 119, 61, 61>>, TRUE)
cIEND == Chunk(STR_IEND, <<>>, TRUE)

Catalogue == {cIHDR, cTitle, cChara, cCcv3, cBadB64, cBadUtf8, cBomKey, cIEND}

ChunkLists(S, n) == UNION {[1..k -> S] : k \in 0..n}

\* 11 of the 12 bytes of an IEND chunk
ShortTail == SubSeq(ChunkBytes(cIEND), 1, 11)

\* how a file ends: with an IEND chunk, with nothing more, or cut short
Endings ==
    {[chunks |-> <<cIEND>>, tail |-> <<>>], [chunks |-> <<>>, tail |-> <<>>],
     [chunks |-> <<>>, tail |-> ShortTail]}

GoodFiles ==
    {[prefix |-> PNG_SIGNATURE, chunks |-> cs \o e.chunks, tail |-> e.tail] :
        cs \in ChunkLists(Catalogue, MaxChunks), e \in Endings}

BadPrefixes ==
    {<<>>, SubSeq(PNG_SIGNATURE, 1, 7),
     <<137, 80, 78, 71, 13, 10, 26, 11>>, <<9, 80, 78, 71, 13, 10, 26, 10>>}

BadFiles ==
    {[prefix |-> x, chunks |-> cs, tail |-> <<>>] :
        x \in BadPrefixes, cs \in {<<>>, <<cChara, cIEND>>, <<cBadB64, cIEND>>}}

Files == GoodFiles \cup BadFiles

\* the files of the sessions that load an export back: whole PNGs
ReloadFiles ==
    {[prefix |-> PNG_SIGNATURE, chunks |-> cs \o <<cIEND>>, tail |-> <<>>] :
        cs \in ChunkLists({cIHDR, cChara, cCcv3}, MaxChunks)}

\* the card texts: "", "{}", U+FEFF "{", a lone high surrogate, and
\* e-acute followed by U+1F600
Texts == {<<>>, <<123, 125>>, <<65279, 123>>, <<55357>>, <<233, 55357, 56832>>}

Options == [writeChara : {"true", "false"}, writeCcv3 : {"true", "false"}]

NotRun == [kind |-> "none", keyword |-> <<>>, jsonText |-> <<>>]
NoOut == [thrown |-> FALSE, error |-> "none", bytes |-> <<>>]
NoOptions == [writeChara |-> "undefined", writeCcv3 |-> "undefined"]
NoWrite == [done |-> FALSE, text |-> <<>>, opts |-> NoOptions]

(***************************************************************************)
(* The session (app/page.tsx): a PNG is imported, which reads its card;    *)
(* the card is exported into the PNG; the export is read back; and the     *)
(* export may be loaded as the next PNG to edit.                           *)
(***************************************************************************)

Start(f) ==
    /\ file = f
    /\ png = FileBytes(f)
    /\ pc = "loaded"
    /\ ext = NotRun
    /\ text = <<>>
    /\ opts = NoOptions
    /\ out = NoOut
    /\ rt = NotRun
    /\ base = <<>>
    /\ wrote = NoWrite
    /\ crcTable = CRC32_TABLE
    /\ signature = PNG_SIGNATURE
    /\ calls = <<>>

Init == \E f \in Files : Start(f)

Import ==
    /\ pc = "loaded"
    /\ ext' = extractCardFromPng(png)
    /\ pc' = "read"
    /\ UNCHANGED <<file, png, text, opts, out, rt, base, wrote, crcTable, signature, calls>>

Export(s, o) ==
    /\ pc = "read"
    /\ text' = s
    /\ opts' = o
    /\ out' = embedCardIntoPng(png, s, o)
    /\ pc' = "written"
    /\ UNCHANGED <<file, png, ext, rt, base, wrote, crcTable, signature, calls>>

ReadBack ==
    /\ pc = "written"
    /\ ~out.thrown
    /\ rt' = extractCardFromPng(out.bytes)
    /\ pc' = "verified"
    /\ UNCHANGED <<file, png, ext, text, opts, out, base, wrote, crcTable, signature, calls>>

Reload ==
    /\ pc = "verified"
    /\ ~wrote.done
    /\ png' = out.bytes
    /\ base' = png
    /\ wrote' = [done |-> TRUE, text |-> text, opts |-> opts]
    /\ pc' = "loaded"
    /\ ext' = NotRun
    /\ out' = NoOut
    /\ rt' = NotRun
    /\ UNCHANGED <<file, text, opts, crcTable, signature, calls>>

Next ==
    \/ Import
    \/ \E s \in Texts, o \in Options : Export(s, o)
    \/ ReadBack

Spec == Init /\ [][Next]_vars

ReloadInit == \E f \in ReloadFiles : Start(f)

ReloadNext == Next \/ Reload

ReloadSpec == ReloadInit /\ [][ReloadNext]_vars

(***************************************************************************)
(* The codec's functions run as calls that take one loop iteration at a    *)
(* time, each call with its own locals, over the module's two shared       *)
(* objects (crcTable, signature).  Two calls are in progress together.     *)
(***************************************************************************)

\* a chunk header declaring one payload byte more than the bytes that follow
OverrunByOne == <<0, 0, 0, 11>> \o SubSeq(ChunkBytes(cChara), 5, Len(ChunkBytes(cChara)))
\* a chunk header declaring 0xFFFFFFFF payload bytes
OverrunHuge == <<255, 255, 255, 255>> \o SubSeq(ChunkBytes(cChara), 5, Len(ChunkBytes(cChara)))

WalkEndings ==
    Endings \cup {[chunks |-> <<>>, tail |-> OverrunByOne], [chunks |-> <<>>, tail |-> OverrunHuge]}

WalkFiles ==
    {[prefix |-> PNG_SIGNATURE, chunks |-> cs \o e.chunks, tail |-> e.tail] :
        cs \in ChunkLists({cIHDR, cCcv3, cIEND}, MaxChunks), e \in WalkEndings}
      \cup {[prefix |-> x, chunks |-> <<cChara, cIEND>>, tail |-> <<>>] :
              x \in {<<>>, SubSeq(PNG_SIGNATURE, 1, 7)}}

CrcInputs ==
    {<<>>, <<0>>, <<255>>, STR_IEND, STR_tEXt, <<255, 255, 255, 255>>, cChara.type \o cChara.data}

CallText == <<123, 125>>

NoResult == [kind |-> "none"]

NewCall(fn, bytes) ==
    [fn |-> fn, bytes |-> bytes, text |-> CallText, opts |-> NoOptions, pc |-> "entry",
     offset |-> 0, toInsert |-> <<>>, outParts |-> <<>>, crc |-> U32(0), reads |-> -1,
     result |-> NoResult]

CallInputs ==
    {NewCall(fn, FileBytes(f)) : fn \in {"extract", "embed"}, f \in WalkFiles}
      \cup {NewCall("crc32", b) : b \in CrcInputs}

\* the calls that run beside the first one
OtherInputs ==
    {NewCall("extract", FileBytes([prefix |-> PNG_SIGNATURE, chunks |-> <<cIHDR, cChara, cIEND>>,
                                   tail |-> <<>>])),
     NewCall("embed", FileBytes([prefix |-> PNG_SIGNATURE, chunks |-> <<cChara, cIHDR, cIEND>>,
                                 tail |-> <<>>])),
     NewCall("crc32", STR_IEND)}

Max(a, b) == IF a > b THEN a ELSE b

\* the first index at which the signature loop finds a difference, 8 if none
FirstMismatch(bytes, sig) ==
    IF \E i \in 0..7 : At(bytes, i) # sig[i + 1]
    THEN CHOOSE i \in 0..7 : At(bytes, i) # sig[i + 1] /\ \A j \in 0..(i - 1) : At(bytes, j) = sig[j + 1]
    ELSE 8

Done(k, result) == [k EXCEPT !.pc = "done", !.result = result]

\* a call up to its loop: the length and signature checks and the locals
Entered(k, sig) ==
    LET m == FirstMismatch(k.bytes, sig)
        seen == [k EXCEPT !.reads = IF m = 8 THEN 7 ELSE m]
    IN
    CASE k.fn = "extract" ->
           IF Len(k.bytes) < 8 THEN Done(k, Null)
           ELSE IF m < 8 THEN Done(seen, Null)
           ELSE [seen EXCEPT !.pc = "loop", !.offset = 8]
      [] k.fn = "embed" ->
           IF m < 8 THEN Done(seen, Thrown("NotPng"))
           ELSE [seen EXCEPT !.pc = "loop", !.offset = 8, !.outParts = <<sig>>,
                             !.toInsert = InsertionSet(base64EncodeUtf8(k.text),
                                                       FlagOn(k.opts.writeChara),
                                                       FlagOn(k.opts.writeCcv3))]
      [] k.fn = "crc32" -> [k EXCEPT !.pc = "loop", !.offset = 0, !.crc = ALL_ONES]

\* one pass through the loop of extractCardFromPng
ExtractIter(k) ==
    IF k.offset + 12 > Len(k.bytes) THEN Done(k, Null)
    ELSE
      LET len == Unsigned(readUint32BE(k.bytes, k.offset))
          type == TextDecoderAscii(Slice(k.bytes, k.offset + 4, k.offset + 8))
          dataStart == k.offset + 8
          next == NumAdd(len, dataStart + 4)
          k1 == [k EXCEPT !.reads = Max(@, k.offset + 7)]
      IN
      IF NumGt(next, Len(k.bytes)) THEN Done(k1, ExtractOverrun)
      ELSE
        LET dataEnd == dataStart + NumToInt(len)
            parsed == IF type = STR_tEXt
                      THEN parseTextChunkKeyword(Slice(k.bytes, dataStart, dataEnd))
                      ELSE NoParse
            k2 == IF type = STR_tEXt THEN [k1 EXCEPT !.reads = Max(@, dataEnd - 1)] ELSE k1
        IN
        IF ~CrcAccepted(Slice(k.bytes, k.offset + 4, dataEnd), Slice(k.bytes, dataEnd, dataEnd + 4))
        THEN Done(k1, Null)
        ELSE IF parsed.found /\ IsCardKeyword(parsed.keyword)
        THEN Done(k2, ExtractMatched(parsed.keyword, parsed.textBytes))
        ELSE IF ExtractEndsAt(type) THEN Done(k2, Null)
        ELSE [k2 EXCEPT !.offset = dataEnd + 4]

\* one pass through the loop of embedCardIntoPng
EmbedIter(k) ==
    IF k.offset + 12 > Len(k.bytes) THEN Done(k, EmbedLoopEnd(k.outParts))
    ELSE
      LET len == Unsigned(readUint32BE(k.bytes, k.offset))
          typeBytes == Slice(k.bytes, k.offset + 4, k.offset + 8)
          type == TextDecoderAscii(typeBytes)
          dataStart == k.offset + 8
          chunkEnd == NumAdd(len, dataStart + 4)
          k1 == [k EXCEPT !.reads = Max(@, k.offset + 7)]
      IN
      IF NumGt(chunkEnd, Len(k.bytes)) THEN Done(k1, EmbedOverrun(k.outParts))
      ELSE
        LET dataEnd == dataStart + NumToInt(len)
            chunkData == Slice(k.bytes, dataStart, dataEnd)
            skip == SkipChunk(type, chunkData)
            withInsert == IF type = STR_IEND THEN k.outParts \o k.toInsert ELSE k.outParts
            withChunk == IF ~skip THEN Append(withInsert, CopiedChunk(typeBytes, chunkData))
                         ELSE withInsert
            k2 == [k1 EXCEPT !.reads = Max(@, dataEnd - 1), !.outParts = withChunk]
        IN
        IF type = STR_IEND THEN Done(k2, Returned(concatBytes(withChunk)))
        ELSE [k2 EXCEPT !.offset = dataEnd + 4]

\* one pass through the loop of crc32, over the shared table
CrcIter(k, table) ==
    IF k.offset >= Len(k.bytes) THEN Done(k, Crc32Result(k.crc))
    ELSE [k EXCEPT !.crc = Crc32Lookup(table, @, At(k.bytes, k.offset)),
                   !.offset = @ + 1, !.reads = k.offset]

\* the locals kept where every call sees them: one offset for all calls
SetCallSharedOffset(cs, c, k) ==
    [j \in DOMAIN cs |-> IF j = c THEN k ELSE [cs[j] EXCEPT !.offset = k.offset]]

\* a call's locals are its own: a step of call c changes those of c only
SetCall(cs, c, k) == [cs EXCEPT ![c] = k]

Idle ==
    /\ file = [prefix |-> <<>>, chunks |-> <<>>, tail |-> <<>>]
    /\ png = <<>>
    /\ pc = "idle"
    /\ ext = NotRun
    /\ text = <<>>
    /\ opts = NoOptions
    /\ out = NoOut
    /\ rt = NotRun
    /\ base = <<>>
    /\ wrote = NoWrite

CallsInit ==
    /\ Idle
    /\ crcTable = makeCrc32Table
    /\ signature = PNG_SIGNATURE
    /\ \E a \in CallInputs, b \in OtherInputs : calls = <<a, b>>

Enter(c) ==
    /\ calls[c].pc = "entry"
    /\ calls' = SetCall(calls, c, Entered(calls[c], signature))
    /\ UNCHANGED <<file, png, pc, ext, text, opts, out, rt, base, wrote, crcTable, signature>>

ExtractStep(c) ==
    /\ calls[c].pc = "loop"
    /\ calls[c].fn = "extract"
    /\ calls' = SetCall(calls, c, ExtractIter(calls[c]))
    /\ UNCHANGED <<file, png, pc, ext, text, opts, out, rt, base, wrote, crcTable, signature>>

EmbedStep(c) ==
    /\ calls[c].pc = "loop"
    /\ calls[c].fn = "embed"
    /\ calls' = SetCall(calls, c, EmbedIter(calls[c]))
    /\ UNCHANGED <<file, png, pc, ext, text, opts, out, rt, base, wrote, crcTable, signature>>

CrcStep(c) ==
    /\ calls[c].pc = "loop"
    /\ calls[c].fn = "crc32"
    /\ calls' = SetCall(calls, c, CrcIter(calls[c], crcTable))
    /\ UNCHANGED <<file, png, pc, ext, text, opts, out, rt, base, wrote, crcTable, signature>>

CallsNext ==
    \E c \in 1..Len(calls) : Enter(c) \/ ExtractStep(c) \/ EmbedStep(c) \/ CrcStep(c)

CallsSpec == CallsInit /\ [][CallsNext]_vars

\* every call that can take a step does take it in the end
CallsFairSpec == CallsSpec /\ WF_vars(CallsNext)

(***************************************************************************)
(* Calls with every form of the options argument, and the caller's use of  *)
(* a returned buffer: it writes into it.                                   *)
(***************************************************************************)
\* a flag given as true or false, or left out (no field, or no options object)
FlagValues == {"true", "false", "undefined"}

OptionForms == [writeChara : FlagValues, writeCcv3 : FlagValues]

UseFiles ==
    {[prefix |-> PNG_SIGNATURE, chunks |-> cs, tail |-> tl] :
        cs \in {<<>>, <<cIHDR>>}, tl \in {<<>>, ChunkBytes(cIEND), OverrunByOne}}
      \cup {[prefix |-> PNG_SIGNATURE, chunks |-> <<cCcv3, cChara, cIEND>>, tail |-> <<>>]}

UseInputs ==
    {[NewCall("embed", FileBytes(f)) EXCEPT !.opts = o] : f \in UseFiles, o \in OptionForms}
      \cup {NewCall("extract", FileBytes(f)) : f \in UseFiles}

\* concatBytes handing back its only part instead of a copy of it
ConcatOwnerFirstPart(parts) == IF Len(parts) = 1 THEN "first" ELSE "fresh"

\* where the bytes concatBytes returns live: const out = new Uint8Array(total)
ConcatOwner(parts) == "fresh"

\* buf with the byte at index i replaced by another value
WriteByte(buf, i) == [buf EXCEPT ![i + 1] = (@ + 1) % 256]

UseInit ==
    /\ Idle
    /\ crcTable = makeCrc32Table
    /\ signature = PNG_SIGNATURE
    /\ \E a \in UseInputs, b \in OtherInputs : calls = <<a, b>>

\* the caller of embed changes byte 0 of the buffer it got back; the first
\* part handed to concatBytes is the signature constant itself
Modify(c) ==
    /\ calls[c].pc = "done"
    /\ calls[c].fn = "embed"
    /\ ~calls[c].result.thrown
    /\ calls' = [calls EXCEPT ![c].pc = "used",
                              ![c].result.bytes = WriteByte(@, 0)]
    /\ signature' = IF ConcatOwner(calls[c].outParts) = "first"
                    THEN WriteByte(signature, 0)
                    ELSE signature
    /\ UNCHANGED <<file, png, pc, ext, text, opts, out, rt, base, wrote, crcTable>>

UseNext == CallsNext \/ \E c \in 1..Len(calls) : Modify(c)

UseSpec == UseInit /\ [][UseNext]_vars

(***************************************************************************)
(* The length field on its own: four bytes are parsed as a length, the     *)
(* length is written back and the written bytes are read again; and walks  *)
(* over buffers whose first chunk declares each of a range of lengths.     *)
(***************************************************************************)
ByteSamples == {0, 1, 128, 255}

LengthFields == [1..4 -> ByteSamples]

LengthCall(b) ==
    [fn |-> "length", bytes |-> b, pc |-> "field", len |-> U32(0), written |-> <<>>, raw |-> 0]

\* the signature and one tEXt chunk of 13 payload bytes whose length field is b
LengthBuffer(b) == PNG_SIGNATURE \o b \o SubSeq(ChunkBytes(cChara), 5, Len(ChunkBytes(cChara)))

LengthWalks ==
    {NewCall(fn, LengthBuffer(b)) :
        fn \in {"extract", "embed"},
        b \in [1..4 -> {0, 128}] \cup {<<0, 0, 0, 10>>, <<0, 0, 0, 14>>, <<255, 255, 255, 255>>}}

LengthInit ==
    /\ Idle
    /\ crcTable = makeCrc32Table
    /\ signature = PNG_SIGNATURE
    /\ \/ \E b \in LengthFields : calls = <<LengthCall(b)>>
       \/ \E a \in LengthWalks, o \in OtherInputs : calls = <<a, o>>

\* const len = readUint32BE(pngBytes, offset) >>> 0
ParseLength(c) ==
    /\ calls[c].pc = "field"
    /\ calls' = [calls EXCEPT ![c].pc = "parsed",
                              ![c].len = Unsigned(readUint32BE(calls[c].bytes, 0))]
    /\ UNCHANGED <<file, png, pc, ext, text, opts, out, rt, base, wrote, crcTable, signature>>

\* const lengthBytes = writeUint32BE(length)
WriteLength(c) ==
    /\ calls[c].pc = "parsed"
    /\ calls' = [calls EXCEPT ![c].pc = "written", ![c].written = writeUint32BE(calls[c].len)]
    /\ UNCHANGED <<file, png, pc, ext, text, opts, out, rt, base, wrote, crcTable, signature>>

\* readUint32BE on the bytes written, before any >>> 0
RereadLength(c) ==
    /\ calls[c].pc = "written"
    /\ calls' = [calls EXCEPT ![c].pc = "reread", ![c].raw = readUint32BE(calls[c].written, 0)]
    /\ UNCHANGED <<file, png, pc, ext, text, opts, out, rt, base, wrote, crcTable, signature>>

LengthNext ==
    \/ CallsNext
    \/ \E c \in 1..Len(calls) : ParseLength(c) \/ WriteLength(c) \/ RereadLength(c)

LengthSpec == LengthInit /\ [][LengthNext]_vars

(***************************************************************************)
(* safeJson.ts: extractFirstJsonObject on texts of braces and letters      *)
(***************************************************************************)
MaxText == 4

OPEN_BRACE == <<123>>
CLOSE_BRACE == <<125>>

\* text.indexOf(ch), from index i on: -1 when ch does not occur
RECURSIVE IndexOfFrom(_, _, _)
IndexOfFrom(s, ch, i) ==
    IF i >= Len(s) THEN -1
    ELSE IF <<s[i + 1]>> = ch THEN i
    ELSE IndexOfFrom(s, ch, i + 1)

NullString == [found |-> FALSE, value |-> <<>>]
FoundString(s) == [found |-> TRUE, value |-> s]

\* the slice that stops before the closing brace
JsonSliceBefore(s, start, i) == FoundString(Slice(s, start, i))

\* return text.slice(start, i + 1)
JsonSlice(s, start, i) == FoundString(Slice(s, start, i + 1))

\* the loop of extractFirstJsonObject from index i on with the depth so far
RECURSIVE JsonLoop(_, _, _, _)
JsonLoop(s, start, i, depth) ==
    IF i >= Len(s) THEN NullString
    ELSE LET ch == <<s[i + 1]>>
             opened == IF ch = OPEN_BRACE THEN depth + 1 ELSE depth
             closed == IF ch = CLOSE_BRACE THEN opened - 1 ELSE opened
         IN  IF closed = 0 THEN JsonSlice(s, start, i)
             ELSE JsonLoop(s, start, i + 1, closed)

extractFirstJsonObject(s) ==
    LET start == IndexOfFrom(s, OPEN_BRACE, 0) IN
    IF start < 0 THEN NullString ELSE JsonLoop(s, start, start, 0)

JsonTexts == UNION {[1..n -> {123, 125, 97}] : n \in 0..MaxText}

JsonCall(s) == [fn |-> "extractFirstJsonObject", text |-> s, pc |-> "entry", result |-> NullString]

JsonInit ==
    /\ Idle
    /\ crcTable = makeCrc32Table
    /\ signature = PNG_SIGNATURE
    /\ \E s \in JsonTexts : calls = <<JsonCall(s)>>

Scan(c) ==
    /\ calls[c].pc = "entry"
    /\ calls' = [calls EXCEPT ![c].pc = "done",
                              ![c].result = extractFirstJsonObject(calls[c].text)]
    /\ UNCHANGED <<file, png, pc, ext, text, opts, out, rt, base, wrote, crcTable, signature>>

JsonNext == \E c \in 1..Len(calls) : Scan(c)

JsonSpec == JsonInit /\ [][JsonNext]_vars

(***************************************************************************)
(* The card types: normalizeImportedCard.  A JavaScript value is a pair of *)
(* its type and its content; an object is its own properties by name, a    *)
(* property it does not have being Absent.                                 *)
(***************************************************************************)
Absent == <<"absent", "">>
JsUndefined == <<"undefined", "">>
JsNull == <<"null", "">>
JsFalse == <<"boolean", "false">>
JsTrue == <<"boolean", "true">>
EmptyArray == <<"array", "">>
EmptyObject == <<"object", "">>
Str(s) == <<"string", s>>
Num(n) == <<"number", n>>

\* ToBoolean: what !v, || and ||= test
Truthy(v) ==
    CASE v[1] \in {"absent", "undefined", "null"} -> FALSE
      [] v[1] = "string" -> v[2] # ""
      [] v[1] = "number" -> v[2] \notin {"0", "NaN"}
      [] v[1] = "boolean" -> v[2] = "true"
      [] OTHER -> TRUE

\* what ?? tests: null or undefined (a missing property reads as undefined)
Nullish(v) == v[1] \in {"absent", "undefined", "null"}

\* a || b
OrElse(a, b) == IF Truthy(a) THEN a ELSE b

\* a ?? b
Coalesce(a, b) == IF Nullish(a) THEN b ELSE a

TextFields == {"name", "description", "personality", "scenario", "first_mes", "mes_example"}

TopKeys ==
    TextFields \cup {"creatorcomment", "avatar", "talkativeness", "fav", "tags", "spec",
                     "spec_version", "create_date", "extra"}

DataKeys ==
    TextFields \cup {"creator_notes", "system_prompt", "post_history_instructions", "tags",
                     "creator", "character_version", "alternate_greetings",
                     "group_only_greetings", "character_book", "extensions", "extra"}

NoTop == [k \in TopKeys |-> Absent]
NoDataProps == [k \in DataKeys |-> Absent]

\* the value of a data property: an object with its properties, or another value
DataObject(props) == [kind |-> "object", v |-> Absent, props |-> props]
DataValue(v) == [kind |-> "value", v |-> v, props |-> NoDataProps]

\* an input: an object with its properties and its data property, or another value
Object(props, data) == [kind |-> "object", v |-> Absent, props |-> props, data |-> data]
Value(v) == [kind |-> "value", v |-> v, props |-> NoTop, data |-> DataValue(Absent)]

emptyCardV3 ==
    Object([k \in TopKeys |->
              CASE k = "avatar" -> Str("none")
                [] k = "talkativeness" -> Str("0.5")
                [] k = "fav" -> JsFalse
                [] k = "tags" -> EmptyArray
                [] k = "spec" -> Str("chara_card_v3")
                [] k = "spec_version" -> Str("3.0")
                [] k = "extra" -> Absent
                [] OTHER -> Str("")],
           DataObject([k \in DataKeys |->
              CASE k \in {"tags", "alternate_greetings"} -> EmptyArray
                [] k = "group_only_greetings" -> JsFalse
                [] k = "character_book" -> <<"object", "book">>
                [] k = "extensions" -> EmptyObject
                [] k = "extra" -> Absent
                [] OTHER -> Str("")]))

\* { ...under, ...over }: the properties over has replace those of under
Spread(under, over) == [k \in DOMAIN under |-> IF over[k] # Absent THEN over[k] ELSE under[k]]

\* the card returned as it is, its top level left alone
syncTopLevelOmitted(card) == card

syncTopLevelFromData(card) ==
    Object([k \in TopKeys |->
              CASE k \in TextFields -> card.data.props[k]
                [] k = "tags" -> Coalesce(card.data.props.tags, Coalesce(card.props.tags, EmptyArray))
                [] OTHER -> card.props[k]],
           card.data)

\* !input || typeof input !== "object"
NotAnObject(input) ==
    \/ input.kind = "value" /\ ~Truthy(input.v)
    \/ input.kind = "value" /\ input.v # JsNull

normalizeImportedCard(input) ==
    IF NotAnObject(input) THEN emptyCardV3
    ELSE
      LET data == IF input.data.kind = "value" /\ Nullish(input.data.v)
                  THEN NoDataProps
                  ELSE input.data.props
          top == [Spread(emptyCardV3.props, input.props) EXCEPT
                    !.spec = Str("chara_card_v3"), !.spec_version = Str("3.0")]
          under == Spread(emptyCardV3.data.props, data)
          filled == [k \in DataKeys |->
                       CASE k \in TextFields -> OrElse(under[k], OrElse(top[k], Str("")))
                         [] k = "tags" -> OrElse(under.tags, OrElse(top.tags, EmptyArray))
                         [] OTHER -> under[k]]
      IN  syncTopLevelFromData(Object(top, DataObject(filled)))

\* the values a property of an input holds
FieldValues == {Absent, JsNull, JsUndefined, Str(""), Str("a"), Str("b"), Num("0")}

CardInputs ==
    {Value(v) : v \in {JsUndefined, JsNull, JsFalse, JsTrue, Str(""), Str("a"), Num("0"), Num("5")}}
      \cup {Object([NoTop EXCEPT ![f] = t], DataObject([NoDataProps EXCEPT ![f] = d])) :
               f \in TextFields \cup {"tags", "extra"}, t \in FieldValues, d \in FieldValues}
      \cup {Object([NoTop EXCEPT !.name = t, !.spec = Str("chara_card_v2")], DataValue(v)) :
               t \in FieldValues, v \in {Absent, JsNull, Str(""), Num("5")}}
      \cup {Object([k \in TopKeys |-> IF k \in TextFields THEN t ELSE Absent],
                   DataObject([k \in DataKeys |-> IF k \in TextFields THEN d ELSE Absent])) :
               t \in FieldValues, d \in FieldValues}

CardCall(input) ==
    [fn |-> "normalizeImportedCard", input |-> input, pc |-> "entry",
     result |-> emptyCardV3, again |-> emptyCardV3]

CardInit ==
    /\ Idle
    /\ crcTable = makeCrc32Table
    /\ signature = PNG_SIGNATURE
    /\ \E input \in CardInputs : calls = <<CardCall(input)>>

Normalize(c) ==
    /\ calls[c].pc = "entry"
    /\ calls' = [calls EXCEPT ![c].pc = "done",
                              ![c].result = normalizeImportedCard(calls[c].input)]
    /\ UNCHANGED <<file, png, pc, ext, text, opts, out, rt, base, wrote, crcTable, signature>>

\* normalizeImportedCard on the card it returned
Renormalize(c) ==
    /\ calls[c].pc = "done"
    /\ calls' = [calls EXCEPT ![c].pc = "again",
                              ![c].again = normalizeImportedCard(calls[c].result)]
    /\ UNCHANGED <<file, png, pc, ext, text, opts, out, rt, base, wrote, crcTable, signature>>

CardNext == \E c \in 1..Len(calls) : Normalize(c) \/ Renormalize(c)

CardSpec == CardInit /\ [][CardNext]_vars

(***************************************************************************)
(* Vocabulary of the properties.  A chunk is read off the file it was      *)
(* assembled from (`file`), or off a buffer by the layout                  *)
(* length | type | payload | CRC.                                          *)
(***************************************************************************)

StartsWithSignature(buf) == Len(buf) >= 8 /\ SubSeq(buf, 1, 8) = PNG_SIGNATURE

\* png is still the file the session started from: only Reload replaces it
FromFile == ~wrote.done

IsIEND(c) == c.type = STR_IEND

\* the chunks up to and including the first IEND: the ones a walk meets
RECURSIVE UpToIEND(_)
UpToIEND(cs) ==
    IF Len(cs) = 0 THEN <<>>
    ELSE IF IsIEND(Head(cs)) THEN <<Head(cs)>>
    ELSE <<Head(cs)>> \o UpToIEND(Tail(cs))

HasIEND(cs) == \E k \in 1..Len(cs) : IsIEND(cs[k])

\* the position of the first NUL of a payload, 0 when it has none
FirstNul(data) ==
    IF \E k \in 1..Len(data) : data[k] = 0
    THEN CHOOSE k \in 1..Len(data) : data[k] = 0 /\ \A j \in 1..(k - 1) : data[j] # 0
    ELSE 0

\* the keyword of a text chunk's payload as the codec reads it: the bytes
\* before the first NUL, less a leading byte order mark
KeywordOf(data) ==
    LET raw == SubSeq(data, 1, FirstNul(data) - 1) IN
    IF Len(raw) >= 3 /\ SubSeq(raw, 1, 3) = UTF8_BOM THEN SubSeq(raw, 4, Len(raw)) ELSE raw

\* a carrier: a tEXt chunk keyed chara or ccv3
IsCarrier(c) ==
    c.type = STR_tEXt /\ FirstNul(c.data) > 1 /\ KeywordOf(c.data) \in {STR_chara, STR_ccv3}

Keyed(c, keyword) == IsCarrier(c) /\ KeywordOf(c.data) = keyword

\* the card text the carriers of the catalogue hold
CardIn(c) ==
    CASE c = cChara -> <<65>> [] c = cCcv3 -> <<66>> [] c = cBomKey -> <<67>>
      [] OTHER -> <<>>

Undecodable(c) == c \in {cBadB64, cBadUtf8}

BigEndian(b) == (b[1] * 16777216) + (b[2] * 65536) + (b[3] * 256) + b[4]

\* the chunks of a buffer from 0-based offset off on, each with the CRC
\* bytes it stores; reading stops where no whole chunk is left
RECURSIVE ChunksAt(_, _)
ChunksAt(buf, off) ==
    IF off + 12 > Len(buf) \/ buf[off + 1] >= 128 THEN <<>>
    ELSE LET n == BigEndian(SubSeq(buf, off + 1, off + 4)) IN
         IF off + 12 + n > Len(buf) THEN <<>>
         ELSE <<[type |-> SubSeq(buf, off + 5, off + 8),
                 data |-> SubSeq(buf, off + 9, off + 8 + n),
                 crc |-> SubSeq(buf, off + 9 + n, off + 12 + n)]>>
              \o ChunksAt(buf, off + 12 + n)

ChunksOf(buf) == ChunksAt(buf, 8)

RECURSIVE StoredSize(_)
StoredSize(cs) == IF Len(cs) = 0 THEN 0 ELSE 12 + Len(Head(cs).data) + StoredSize(Tail(cs))

\* buf is the signature and then whole chunks, the last of them IEND
WholePng(buf) ==
    /\ StartsWithSignature(buf)
    /\ LET cs == ChunksOf(buf) IN
       /\ 8 + StoredSize(cs) = Len(buf)
       /\ Len(cs) > 0
       /\ IsIEND(cs[Len(cs)])

CountKeyed(buf, keyword) ==
    Len(SelectSeq(ChunksOf(buf), LAMBDA c : Keyed(c, keyword)))

\* a string of well-formed UTF-16: no surrogate without its partner
WellFormed(s) == ToCodeUnits(ToScalarValues(s, 1), 1) = s

CharaOnly == [writeChara |-> "true", writeCcv3 |-> "false"]
BothOn == [writeChara |-> "true", writeCcv3 |-> "true"]

(***************************************************************************)
(* Properties                                                              *)
(***************************************************************************)

\* C3: embedCardIntoPng on a buffer with the signature whose walk ends
\* without meeting an IEND chunk fails with an error.
C3_NoIendFails ==
    (pc = "written" /\ FromFile /\ file.prefix = PNG_SIGNATURE /\ ~HasIEND(file.chunks))
        => out.thrown

\* C4: every buffer embedCardIntoPng returns begins with the signature and
\* ends with a complete IEND chunk, so it has at least 20 bytes.
C4_ReturnsWholePng ==
    (pc = "written" /\ ~out.thrown) => (WholePng(out.bytes) /\ Len(out.bytes) >= 20)

\* C7: extractCardFromPng on a buffer whose first 8 bytes are not the
\* signature (the empty and the shorter buffers too) returns null and does
\* not throw.
C7_ExtractWithoutSignature ==
    (pc = "read" /\ ~StartsWithSignature(png)) => ext = Null

C7_Witness ==
    /\ pc = "read"
    /\ Len(png) > 8
    /\ ~StartsWithSignature(png)
    /\ \E k \in 1..Len(file.chunks) : IsCarrier(file.chunks[k])
    /\ ext = Null

\* C8: embedCardIntoPng on a buffer whose first 8 bytes are not the
\* signature throws and returns no buffer, whatever the text and the flags.
C8_EmbedWithoutSignature ==
    (pc = "written" /\ ~StartsWithSignature(png)) => (out.thrown /\ out.bytes = <<>>)

C8_Witness ==
    /\ pc = "written"
    /\ Len(png) < 8
    /\ opts = CharaOnly
    /\ out.thrown

\* the carriers a walk of the file meets, in file order
Carriers(cs) == SelectSeq(UpToIEND(cs), IsCarrier)

\* the chunks a walk of the file meets that are no carriers, in file order
Kept(cs) == SelectSeq(UpToIEND(cs), LAMBDA c : ~IsCarrier(c))

\* a chunk of the file with the CRC bytes the file stores for it
Stored(c) ==
    [type |-> c.type, data |-> c.data,
     crc |-> SubSeq(ChunkBytes(c), 9 + Len(c.data), 12 + Len(c.data))]

\* a chunk of the file with the CRC bytes of its type and payload
Fresh(c) ==
    [type |-> c.type, data |-> c.data, crc |-> writeUint32BE(crc32(c.type \o c.data))]

\* a is b with some elements left out
RECURSIVE IsSubseq(_, _)
IsSubseq(a, b) ==
    IF Len(a) = 0 THEN TRUE
    ELSE IF Len(b) = 0 THEN FALSE
    ELSE IF Head(a) = Head(b) THEN IsSubseq(Tail(a), Tail(b))
    ELSE IsSubseq(a, Tail(b))

PngWithIEND == FromFile /\ file.prefix = PNG_SIGNATURE /\ HasIEND(file.chunks)

\* C1: for every PNG p with a reachable IEND and every text s,
\* extract(embed(p, s, chara only)) is keyword chara with text s.
C1_RoundTrip ==
    (pc = "verified" /\ PngWithIEND /\ opts = CharaOnly /\ WellFormed(text))
        => rt = Card(STR_chara, text)

C6_SelectiveWrite ==
    (pc = "verified" /\ PngWithIEND /\ opts = CharaOnly)
        => /\ CountKeyed(out.bytes, STR_chara) = 1
           /\ CountKeyed(out.bytes, STR_ccv3) = 0
           /\ rt.kind = "card"
           /\ rt.keyword = STR_chara

C6_Witness ==
    /\ pc = "verified"
    /\ PngWithIEND
    /\ opts = CharaOnly
    /\ Cardinality({k \in 1..Len(file.chunks) : Keyed(file.chunks[k], STR_ccv3)}) >= 2
    /\ CountKeyed(out.bytes, STR_ccv3) = 0
    /\ rt.keyword = STR_chara

ExportOfWholePng == wrote.done /\ WholePng(base)

\* C5: embed(embed(p, s1), s2) with both flags on holds exactly one chunk
\* keyed chara and one keyed ccv3, extract on it returns s2 and not s1, and
\* it is as long as embed(p, s2).
C5_IdempotentReplace ==
    (pc = "verified" /\ ExportOfWholePng /\ wrote.opts = BothOn /\ opts = BothOn
        /\ WellFormed(wrote.text) /\ WellFormed(text))
        => /\ CountKeyed(out.bytes, STR_chara) = 1
           /\ CountKeyed(out.bytes, STR_ccv3) = 1
           /\ rt = Card(STR_chara, text)
           /\ (wrote.text # text => rt.jsonText # wrote.text)
           /\ Len(out.bytes) = Len(embedCardIntoPng(base, text, opts).bytes)

(***************************************************************************)
(* Properties of the calls                                                 *)
(***************************************************************************)

CallIds == 1..Len(calls)

\* what call c returns when it runs alone
Alone(k) ==
    CASE k.fn = "extract" -> extractCardFromPng(k.bytes)
      [] k.fn = "embed" -> embedCardIntoPng(k.bytes, k.text, k.opts)
      [] k.fn = "crc32" -> crc32(k.bytes)

\* the buffer's whole chunks hold no IEND and are followed by 12 bytes or
\* more: the walk meets a chunk that overruns the buffer
Overruns(bytes) ==
    /\ StartsWithSignature(bytes)
    /\ ~HasIEND(ChunksOf(bytes))
    /\ Len(bytes) - (8 + StoredSize(ChunksOf(bytes))) >= 12

\* the buffer cut back to its signature and whole chunks
WholeChunks(bytes) == SubSeq(bytes, 1, 8 + StoredSize(ChunksOf(bytes)))

\* C15: crc32 of the bytes "IEND" is 0xAE426082 (0xAE42 = 44610,
\* 0x6082 = 24706), and every result of crc32 is in 0..2^32-1.
C15_Crc32Unsigned ==
    \A c \in CallIds :
        (calls[c].fn = "crc32" /\ calls[c].pc = "done")
            => /\ IsUint32(calls[c].result)
               /\ calls[c].bytes = STR_IEND => calls[c].result = [h |-> 44610, l |-> 24706]

C15_Witness ==
    /\ calls # <<>>
    /\ calls[1].fn = "crc32"
    /\ calls[1].bytes = STR_IEND
    /\ calls[1].pc = "done"
    /\ writeUint32BE(calls[1].result) = <<174, 66, 96, 130>>

\* C16: no step of a call writes the CRC table or the signature, and a call
\* that ran interleaved with another returns what it returns run alone.
C16_NoSharedState ==
    /\ [][crcTable' = crcTable /\ signature' = signature]_vars
    /\ [](\A c \in CallIds : calls[c].pc = "done" => calls[c].result = Alone(calls[c]))

C16_Witness ==
    /\ calls # <<>>
    /\ calls[1].fn = "embed"
    /\ calls[2].fn = "extract"
    /\ calls[1].bytes # calls[2].bytes
    /\ calls[1].pc = "loop" /\ calls[1].offset > 8
    /\ calls[2].pc = "loop" /\ calls[2].offset > 8

\* C18: extractCardFromPng reads no byte at or past the buffer's end, and a
\* chunk that overruns the buffer ends the walk as the end of the bytes
\* does: nothing is thrown, the chunk is not parsed, and the result is null
\* unless a chunk before it matched.
C18_ExtractOverrunSilent ==
    \A c \in CallIds :
        calls[c].fn = "extract"
            => /\ calls[c].reads < Len(calls[c].bytes)
               /\ (calls[c].pc = "done" /\ Overruns(calls[c].bytes))
                    => /\ calls[c].result.kind # "throw"
                       /\ calls[c].result = extractCardFromPng(WholeChunks(calls[c].bytes))
                       /\ Carriers(ChunksOf(calls[c].bytes)) = <<>> => calls[c].result = Null

C18_Witness ==
    /\ calls # <<>>
    /\ calls[1].fn = "extract"
    /\ calls[1].pc = "done"
    /\ calls[1].bytes = PNG_SIGNATURE \o ChunkBytes(cIHDR) \o OverrunHuge
    /\ calls[1].result = Null
    /\ calls[1].reads = 8 + 13 + 7

\* C19: embedCardIntoPng throws, and returns no buffer, when its walk meets
\* (12 bytes or more are left) a chunk that overruns the buffer before any
\* IEND.
C19_EmbedOverrunFails ==
    \A c \in CallIds :
        (calls[c].fn = "embed" /\ calls[c].pc = "done" /\ Overruns(calls[c].bytes))
            => calls[c].result = Thrown("ChunkCorrupt")

C19_Witness ==
    /\ calls # <<>>
    /\ calls[1].fn = "embed"
    /\ calls[1].pc = "done"
    /\ calls[1].bytes = PNG_SIGNATURE \o ChunkBytes(cIHDR) \o ChunkBytes(cCcv3) \o OverrunByOne
    /\ calls[1].result.thrown
    /\ Len(calls[1].outParts) = 2

\* C20: a pass through the loop of extract or embed that does not leave it
\* moves the offset forward by 12 or more and not past the buffer's end,
\* and every call ends.
C20_Terminates ==
    /\ [][\A c \in CallIds :
            (calls[c].fn # "crc32" /\ calls[c].pc = "loop" /\ calls'[c].pc = "loop"
                /\ calls'[c] # calls[c])
                => /\ calls'[c].offset >= calls[c].offset + 12
                   /\ calls'[c].offset <= Len(calls[c].bytes)]_vars
    /\ <>(\A c \in CallIds : calls[c].pc = "done")

C20_Witness ==
    /\ calls # <<>>
    /\ calls[1].fn = "extract"
    /\ calls[1].pc = "loop"
    /\ calls[1].offset = 8 + 13 + 13
    /\ calls[2].pc = "done"

(***************************************************************************)
(* Properties of the written chunks and of the walk's end                  *)
(***************************************************************************)

\* the chunk embed builds for a keyword: tEXt, keyword NUL base64(text),
\* with the CRC of its type and payload
NewChunk(keyword, s) ==
    Fresh([type |-> STR_tEXt, data |-> keyword \o <<0>> \o base64EncodeUtf8(s)])

\* the chunks embed builds for the text and the options of the state
NewChunks ==
    (IF FlagOn(opts.writeChara) THEN <<NewChunk(STR_chara, text)>> ELSE <<>>)
      \o (IF FlagOn(opts.writeCcv3) THEN <<NewChunk(STR_ccv3, text)>> ELSE <<>>)

\* the chunks a walk of the file copies, IEND left out
CopiedBeforeIEND(cs) == SelectSeq(Kept(cs), LAMBDA c : ~IsIEND(c))

FreshAll(cs) == [k \in 1..Len(cs) |-> Fresh(cs[k])]

\* C11: the output of a successful embed is the copied chunks, then the new
\* chunks (chara before ccv3) with nothing between them, then IEND.
C11_InsertedBeforeIend ==
    (pc = "written" /\ FromFile /\ ~out.thrown)
        => ChunksOf(out.bytes)
             = FreshAll(CopiedBeforeIEND(file.chunks)) \o NewChunks \o <<Fresh(cIEND)>>

\* C12: for a file with the signature, no carrier chunk and an IEND chunk as
\* its last bytes, and a text s, embed with both flags on returns Len(p) +
\* (12 + 5 + 1 + L) + (12 + 4 + 1 + L) bytes, L the length of the base64
\* text of s, and extract on them returns keyword chara and s.
C12_SizeAccounting ==
    (pc = "verified" /\ FromFile /\ file.prefix = PNG_SIGNATURE /\ file.tail = <<>>
        /\ Len(file.chunks) > 0 /\ IsIEND(file.chunks[Len(file.chunks)])
        /\ SelectSeq(file.chunks, IsCarrier) = <<>>
        /\ opts = BothOn /\ WellFormed(text))
        => LET L == Len(base64EncodeUtf8(text)) IN
           /\ Len(out.bytes) = Len(png) + (12 + 5 + 1 + L) + (12 + 4 + 1 + L)
           /\ rt = Card(STR_chara, text)

\* C13: every buffer embed returns is the signature and chunks each of which
\* stores its payload's length and the CRC of its type and payload, the
\* copies of chunks stored with another CRC too.
C13_WrittenCrcFresh ==
    (pc = "written" /\ ~out.thrown)
        => LET cs == ChunksOf(out.bytes) IN
           /\ 8 + StoredSize(cs) = Len(out.bytes)
           /\ \A k \in 1..Len(cs) :
                /\ cs[k].crc = writeUint32BE(crc32(cs[k].type \o cs[k].data))
                /\ \/ cs[k] \in {NewChunks[j] : j \in 1..Len(NewChunks)}
                   \/ \E j \in 1..Len(file.chunks) :
                        cs[k].type = file.chunks[j].type /\ cs[k].data = file.chunks[j].data
           /\ Len(cs) >= Len(CopiedBeforeIEND(file.chunks))

C13_Witness ==
    /\ pc = "written"
    /\ ~out.thrown
    /\ file.chunks = <<cIHDR, cTitle, cIEND>>
    /\ opts = BothOn
    /\ Stored(cIHDR) # Fresh(cIHDR)
    /\ ChunksOf(out.bytes)[1] = Fresh(cIHDR)
    /\ ChunksOf(out.bytes)[3] = NewChunk(STR_chara, text)

RECURSIVE CrcFlipped(_, _, _)
CrcFlipped(cs, k, flips) ==
    IF k > Len(cs) THEN <<>>
    ELSE LET c == cs[k]
             low == IF c.crc[4] % 2 = 0 THEN c.crc[4] + 1 ELSE c.crc[4] - 1
             crc == IF k \in flips THEN <<c.crc[1], c.crc[2], c.crc[3], low>> ELSE c.crc
         IN  writeUint32BE(U32(Len(c.data))) \o c.type \o c.data \o crc
               \o CrcFlipped(cs, k + 1, flips)

\* the buffers that differ from bytes in CRC fields only
CrcVariants(bytes) ==
    IF Len(bytes) < 8 THEN {bytes}
    ELSE LET cs == ChunksOf(bytes)
             rest == SubSeq(bytes, 9 + StoredSize(cs), Len(bytes))
         IN  {SubSeq(bytes, 1, 8) \o CrcFlipped(cs, 1, flips) \o rest :
                flips \in SUBSET (1..Len(cs))}

\* C14: extract returns the same on buffers that differ in CRC fields only,
\* a carrier with a wrong CRC is extracted, and embed throws on one such
\* buffer exactly when it throws on the other.
C14_CrcIgnoredOnRead ==
    \A c \in CallIds :
        calls[c].pc = "done"
            => /\ calls[c].fn = "extract"
                    => \A v \in CrcVariants(calls[c].bytes) :
                            extractCardFromPng(v) = calls[c].result
               /\ calls[c].fn = "embed"
                    => \A v \in CrcVariants(calls[c].bytes) :
                            embedCardIntoPng(v, calls[c].text, calls[c].opts).thrown
                                = calls[c].result.thrown

C14_Witness ==
    /\ calls # <<>>
    /\ calls[1].fn = "extract"
    /\ calls[1].pc = "done"
    /\ calls[1].bytes = PNG_SIGNATURE \o ChunkBytes(cIHDR) \o ChunkBytes(cCcv3) \o ChunkBytes(cIEND)
    /\ ~cCcv3.crcOk
    /\ Cardinality(CrcVariants(calls[1].bytes)) = 8
    /\ calls[1].result = Card(STR_ccv3, <<66>>)

\* the options with every omitted flag written out as true
Defaulted(o) ==
    [writeChara |-> IF o.writeChara = "undefined" THEN "true" ELSE o.writeChara,
     writeCcv3 |-> IF o.writeCcv3 = "undefined" THEN "true" ELSE o.writeCcv3]

\* C21: no step of extract or embed, and no write of the caller into a buffer
\* embed returned, changes a byte of a call's input buffer or of the
\* signature constant.
C21_InputUntouched ==
    [][/\ signature' = signature
       /\ Len(calls') = Len(calls)
       /\ \A c \in CallIds : calls'[c].bytes = calls[c].bytes]_vars

C21_Witness ==
    /\ calls # <<>>
    /\ calls[1].fn = "embed"
    /\ calls[1].pc = "used"
    /\ calls[1].bytes = PNG_SIGNATURE
    /\ calls[1].outParts = <<PNG_SIGNATURE>>
    /\ calls[1].result.bytes = WriteByte(PNG_SIGNATURE, 0)
    /\ signature = PNG_SIGNATURE

\* C22: embed with a flag left out returns what it returns with that flag
\* true, and on a buffer with an IEND chunk it writes one chunk of a keyword
\* unless the keyword's flag is false, so both chunks with no options.
C22_OptionDefaults ==
    \A c \in CallIds :
        (calls[c].fn = "embed" /\ calls[c].pc = "done")
            => /\ calls[c].result
                    = embedCardIntoPng(calls[c].bytes, calls[c].text, Defaulted(calls[c].opts))
               /\ (~calls[c].result.thrown /\ HasIEND(ChunksOf(calls[c].bytes)))
                    => /\ CountKeyed(calls[c].result.bytes, STR_chara)
                            = IF calls[c].opts.writeChara = "false" THEN 0 ELSE 1
                       /\ CountKeyed(calls[c].result.bytes, STR_ccv3)
                            = IF calls[c].opts.writeCcv3 = "false" THEN 0 ELSE 1

C22_Witness ==
    /\ calls # <<>>
    /\ calls[1].fn = "embed"
    /\ calls[1].pc = "done"
    /\ calls[1].opts = NoOptions
    /\ calls[1].bytes = PNG_SIGNATURE \o ChunkBytes(cIHDR) \o ChunkBytes(cIEND)
    /\ ChunksOf(calls[1].result.bytes)
         = <<Fresh(cIHDR), NewChunk(STR_chara, calls[1].text),
             NewChunk(STR_ccv3, calls[1].text), Fresh(cIEND)>>

\* a tEXt chunk whose payload bytes before the first NUL are exactly the
\* bytes of "chara" or of "ccv3"
ExactCarrier(c) ==
    /\ c.type = STR_tEXt
    /\ FirstNul(c.data) > 1
    /\ SubSeq(c.data, 1, FirstNul(c.data) - 1) \in {STR_chara, STR_ccv3}

\* C23: extract finds nothing in a file none of whose chunks is a tEXt chunk
\* with exactly the bytes chara or ccv3 before its first NUL, and embed
\* keeps every chunk before IEND that is not such a chunk.
C23_ExactKeyword ==
    /\ (pc = "read" /\ FromFile /\ file.prefix = PNG_SIGNATURE
            /\ \A k \in 1..Len(file.chunks) : ~ExactCarrier(file.chunks[k]))
          => ext = Null
    /\ (pc = "written" /\ FromFile /\ ~out.thrown /\ HasIEND(file.chunks))
          => IsSubseq(FreshAll(SelectSeq(UpToIEND(file.chunks), LAMBDA c : ~ExactCarrier(c))),
                      ChunksOf(out.bytes))

\* the number b0*2^24 + b1*2^16 + b2*2^8 + b3 of four bytes, as two 16-bit halves
BigEndianU32(b) == [h |-> (b[1] * 256) + b[2], l |-> (b[3] * 256) + b[4]]

\* the length field of the first chunk of a call's buffer is 2^31 or more
HugeFirst(k) == k.fn \in {"extract", "embed"} /\ Len(k.bytes) >= 12 /\ k.bytes[9] >= 128

\* what C24 says of the parsed length and of the walks
LengthParsedAndWalked ==
    \A c \in CallIds :
        /\ (calls[c].fn = "length" /\ calls[c].pc # "field")
              => /\ calls[c].len = BigEndianU32(calls[c].bytes)
                 /\ IsUint32(calls[c].len)
        /\ (calls[c].fn = "length" /\ calls[c].pc \in {"written", "reread"})
              => calls[c].written = calls[c].bytes
        /\ HugeFirst(calls[c])
              => /\ calls[c].pc # "entry" => calls[c].offset = 8
                 /\ (calls[c].pc = "done" /\ calls[c].fn = "extract") => calls[c].result = Null
                 /\ (calls[c].pc = "done" /\ calls[c].fn = "embed")
                       => calls[c].result = Thrown("ChunkCorrupt")

\* C24 as stated: the parsed length is the unsigned big-endian number of the
\* four bytes, a length of 2^31 or more ends the walk as an overrun with the
\* offset where it was, and readUint32BE on the bytes writeUint32BE wrote
\* returns the value written.
C24_RereadIsValue ==
    /\ LengthParsedAndWalked
    /\ \A c \in CallIds :
          (calls[c].fn = "length" /\ calls[c].pc = "reread")
              => (calls[c].raw >= 0 /\ U32(calls[c].raw) = calls[c].len)

\* C24: the parsed length is the unsigned big-endian number of the four
\* bytes, a length of 2^31 or more ends the walk as an overrun with the
\* offset where it was, and readUint32BE on the bytes writeUint32BE wrote,
\* followed by >>> 0 as at every place of call, gives the value written.
C24_LengthUnsigned ==
    /\ LengthParsedAndWalked
    /\ \A c \in CallIds :
          (calls[c].fn = "length" /\ calls[c].pc = "reread")
              => Unsigned(calls[c].raw) = calls[c].len

C24_Witness ==
    /\ calls # <<>>
    /\ calls[1].fn = "length"
    /\ calls[1].pc = "reread"
    /\ calls[1].bytes = <<128, 0, 1, 255>>
    /\ calls[1].len = [h |-> 32768, l |-> 511]
    /\ calls[1].raw < 0

\* the reflected CRC-32 taken bit by bit on unsigned halves: one shift of
\* the register, with the polynomial 0xEDB88320 xored in when a 1 leaves it
BitwiseShift(r) ==
    LET s == [h |-> r.h \div 2, l |-> ((r.h % 2) * 32768) + (r.l \div 2)] IN
    IF r.l % 2 = 1 THEN [h |-> BitXor(s.h, 60856), l |-> BitXor(s.l, 33568)] ELSE s

RECURSIVE BitwiseShifts(_, _)
BitwiseShifts(r, n) == IF n = 0 THEN r ELSE BitwiseShifts(BitwiseShift(r), n - 1)

\* the register after the bytes from the k-th on
RECURSIVE BitwiseRegister(_, _, _)
BitwiseRegister(bytes, k, r) ==
    IF k > Len(bytes) THEN r
    ELSE BitwiseRegister(bytes, k + 1,
                         BitwiseShifts([h |-> r.h, l |-> BitXor(r.l, bytes[k])], 8))

\* initial value 0xFFFFFFFF and a final complement
BitwiseCrc32(bytes) ==
    LET r == BitwiseRegister(bytes, 1, [h |-> 65535, l |-> 65535]) IN
    [h |-> 65535 - r.h, l |-> 65535 - r.l]

\* C25: crc32 returns the bit-by-bit reflected CRC-32 of its bytes, 0 for no
\* bytes, and entry i of the table a crc32 call finds is the remainder the
\* eight shifts leave of i.
C25_TableMatchesBitwise ==
    \A c \in CallIds :
        calls[c].fn = "crc32"
            => /\ calls[c].pc = "done"
                    => /\ calls[c].result = BitwiseCrc32(calls[c].bytes)
                       /\ calls[c].bytes = <<>> => calls[c].result = U32(0)
               /\ (c = 1 /\ calls[c].pc = "entry")
                    => \A i \in 0..255 : crcTable[i] = BitwiseShifts(U32(i), 8)

C25_Witness ==
    /\ calls # <<>>
    /\ calls[1].fn = "crc32"
    /\ calls[1].pc = "done"
    /\ calls[1].bytes = cChara.type \o cChara.data
    /\ calls[1].result = BitwiseCrc32(calls[1].bytes)
    /\ calls[1].result # U32(0)
    /\ crcTable[255] = [h |-> 11522, l |-> 61325]

NeitherOn == [writeChara |-> "false", writeCcv3 |-> "false"]

\* C26: for a PNG with an IEND chunk and a text s, extract(embed(p, s, flags))
\* is keyword chara with s when writeChara is on, keyword ccv3 with s when
\* writeCcv3 alone is on, and null when both are off, the output then
\* holding no carrier.
C26_OutcomeByFlags ==
    (pc = "verified" /\ PngWithIEND /\ WellFormed(text))
        => /\ opts.writeChara = "true" => rt = Card(STR_chara, text)
           /\ (opts.writeChara = "false" /\ opts.writeCcv3 = "true") => rt = Card(STR_ccv3, text)
           /\ opts = NeitherOn
                => /\ rt = Null
                   /\ \A k \in 1..Len(ChunksOf(out.bytes)) : ~IsCarrier(ChunksOf(out.bytes)[k])

\* C27: with the same flags, embed(embed(p, s1), s2) is the bytes of
\* embed(p, s2) for a PNG p with an IEND chunk.
C27_ReembedEqual ==
    (pc = "written" /\ ExportOfWholePng /\ wrote.opts = opts)
        => out = embedCardIntoPng(base, text, opts)

C27_Witness ==
    /\ pc = "written"
    /\ ExportOfWholePng
    /\ wrote.opts = BothOn
    /\ opts = BothOn
    /\ wrote.text # text
    /\ CountKeyed(base, STR_ccv3) = 2
    /\ ~out.thrown
    /\ CountKeyed(out.bytes, STR_ccv3) = 1

CountOf(s, ch, a, b) == Cardinality({k \in a..b : s[k] = ch})

\* the braces opened from position a on are closed again at position b
Balanced(s, a, b) == CountOf(s, 123, a, b) = CountOf(s, 125, a, b)

\* C29: extractFirstJsonObject returns null for a text without '{' and for
\* one whose braces from the first '{' on never balance; otherwise the text
\* from the first '{' to the first position where they balance, which
\* begins with '{', ends with '}', holds as many '{' as '}', and every
\* proper prefix of which holds more '{' than '}'.
C29_FirstBalancedObject ==
    \A c \in CallIds :
        calls[c].pc = "done"
            => LET s == calls[c].text
                   r == calls[c].result
                   opens == {k \in 1..Len(s) : s[k] = 123}
               IN
               IF opens = {} THEN r = NullString
               ELSE LET a == CHOOSE k \in opens : \A j \in opens : k <= j
                        ends == {b \in a..Len(s) : Balanced(s, a, b)}
                    IN
                    IF ends = {} THEN r = NullString
                    ELSE LET b == CHOOSE k \in ends : \A j \in ends : k <= j
                             v == r.value
                         IN
                         /\ r = FoundString(SubSeq(s, a, b))
                         /\ v[1] = 123
                         /\ v[Len(v)] = 125
                         /\ Balanced(v, 1, Len(v))
                         /\ \A n \in 1..(Len(v) - 1) :
                                CountOf(v, 123, 1, n) > CountOf(v, 125, 1, n)

C29_Witness ==
    /\ calls # <<>>
    /\ calls[1].pc = "done"
    /\ calls[1].text = <<125, 123, 125, 123>>
    /\ calls[1].result = FoundString(<<123, 125>>)

\* C30: the card normalizeImportedCard returns has spec "chara_card_v3" and
\* spec_version "3.0", each of its six text fields equals the field of the
\* same name under data, and normalizeImportedCard returns it unchanged.
C30_NormalizedCard ==
    \A c \in CallIds :
        /\ calls[c].pc \in {"done", "again"}
              => LET r == calls[c].result IN
                 /\ r.kind = "object"
                 /\ r.data.kind = "object"
                 /\ r.props.spec = Str("chara_card_v3")
                 /\ r.props.spec_version = Str("3.0")
                 /\ \A f \in TextFields : r.props[f] = r.data.props[f]
        /\ calls[c].pc = "again" => calls[c].again = calls[c].result

C30_Witness ==
    /\ calls # <<>>
    /\ calls[1].pc = "again"
    /\ calls[1].input.kind = "object"
    /\ calls[1].input.props.name = Str("a")
    /\ calls[1].input.props.scenario = Str("a")
    /\ calls[1].input.data.props.name = Str("b")
    /\ calls[1].input.data.props.scenario = Str("b")
    /\ calls[1].result.props.name = Str("b")
    /\ calls[1].again = calls[1].result

====
